---- MODULE Spec2Model ----
(***************************************************************************)
(* A model of textual.document._wrapped_document.WrappedDocument: the      *)
(* per-line table of wrap offsets, its full recomputation (wrap), its      *)
(* incremental maintenance after an edit (refresh_range) and the queries   *)
(* served from it (offset_to_line_index, get_offsets).                     *)
(*                                                                         *)
(* Rows, columns, offsets and line indices are 0-based as in the Python    *)
(* source; TLA+ sequences are 1-based, so row r is document[r + 1].        *)
(* A line of text is a sequence of one-character strings.                  *)
(***************************************************************************)
EXTENDS Integers, Sequences, FiniteSets, TLC

\* Bounds of the model.
MaxLines == 3       \* most logical lines a document holds
MaxLineLen == 2     \* most characters in one logical line
MaxWidth == 1       \* widest wrap width
MaxInsert == 2      \* most characters (line breaks included) one edit inserts
MaxEdits == 1       \* most edits in one behaviour

Alphabet == {"a"}
NL == "\n"

VARIABLES
    document,       \* self._document.lines: the document's current lines
    width,          \* self._width
    wrap_offsets,   \* self._wrap_offsets: one entry of offsets per line
    pending,        \* TRUE between a document edit and its refresh_range
    span,           \* <<start, old_end, new_end>> of the last edit
    pre_lines,      \* the document's lines before the last edit
    pre_offsets,    \* the table before the last refresh_range
    op,             \* the last operation performed
    arg,            \* the argument of the last query
    result,         \* the outcome of the last query
    edits,          \* number of edits performed
    wrapped,        \* TRUE once wrap() has been called
    wrap_repeated,  \* TRUE when the last two operations were both wrap()
    refreshed_rows, \* the rows the last refresh_range read, in order
    refreshed_entries,  \* the entries the last refresh_range computed
    pc,             \* where a wrap() call stands: "idle" when none runs
    new_wrap_offsets,   \* the table a running wrap() has built so far
    remaining,      \* the lines a running wrap() has yet to split
    table_at_call   \* the table as it stood when the running wrap() began

\* The variables of a wrap() call taken step by step.
wrap_vars == <<pc, new_wrap_offsets, remaining, table_at_call>>

vars == <<document, width, wrap_offsets, pending, span, pre_lines,
          pre_offsets, op, arg, result, edits, wrapped, wrap_repeated,
          refreshed_rows, refreshed_entries, wrap_vars>>

Min(a, b) == IF a < b THEN a ELSE b
Max(a, b) == IF a > b THEN a ELSE b

\* Python's s[lo:hi] for 0 <= lo, 0 <= hi: both ends are clamped to len(s).
Slice(s, lo, hi) == SubSeq(s, Min(lo, Len(s)) + 1, Min(hi, Len(s)))

\* Python's s[lo:hi] = new for 0 <= lo, 0 <= hi: the ends are clamped to
\* len(s) and a reversed range is the empty range at lo.
SliceAssign(s, lo, hi, new) ==
    LET l == Min(lo, Len(s))
        h == Max(l, Min(hi, Len(s)))
    IN  SubSeq(s, 1, l) \o new \o SubSeq(s, h + 1, Len(s))

\* The external line splitter: for text without spaces every visual line is
\* filled to the width, so the breaks are the multiples of the width that lie
\* inside the line; width 0 never wraps.
divide_line(line, w) ==
    IF w = 0 \/ Len(line) = 0
    THEN <<>>
    ELSE [k \in 1..((Len(line) - 1) \div w) |-> k * w]

\* Text(line).divide(offsets): the text between consecutive cut points
\* 0, offsets..., len(line); always len(offsets) + 1 pieces.
divide(line, offsets) ==
    LET cuts == <<0>> \o offsets \o <<Len(line)>>
    IN  [k \in 1..(Len(offsets) + 1) |-> Slice(line, cuts[k], cuts[k + 1])]

\* All sequences over S of length at most n.
SeqsUpTo(S, n) == UNION {[1..k -> S] : k \in 0..n}

Lines == SeqsUpTo(Alphabet, MaxLineLen)
Documents == SeqsUpTo(Lines, MaxLines) \ {<<>>}
Texts == SeqsUpTo(Alphabet \cup {NL}, MaxInsert)

\* What a call gives back: a value, or the exception it raises.
Return(v) == [kind |-> "return", value |-> v]
ValueError == [kind |-> "ValueError"]
IndexError == [kind |-> "IndexError"]
NoResult == [kind |-> "none"]

QueryOps == {"offset_to_line_index", "get_offsets", "lines"}

Init ==
    /\ document \in Documents
    /\ width \in 0..MaxWidth
    /\ wrap_offsets = <<>>
    /\ pending = FALSE
    /\ span = <<>>
    /\ pre_lines = <<>>
    /\ pre_offsets = <<>>
    /\ op = "init"
    /\ arg = 0
    /\ result = NoResult
    /\ edits = 0
    /\ wrapped = FALSE
    /\ wrap_repeated = FALSE
    /\ refreshed_rows = <<>>
    /\ refreshed_entries = <<>>
    /\ pc = "idle"
    /\ new_wrap_offsets = <<>>
    /\ remaining = <<>>
    /\ table_at_call = <<>>

\* The loop of wrap(): the entry of each remaining line is appended to the
\* table being built.
RECURSIVE wrap_loop(_, _, _)
wrap_loop(rest, w, built) ==
    IF rest = <<>>
    THEN built
    ELSE wrap_loop(Tail(rest), w, Append(built, divide_line(Head(rest), w)))

wrap_drops_last_line(lines, w) ==
    wrap_loop(SubSeq(lines, 1, Len(lines) - 1), w, <<>>)

\* The table wrap() builds, starting from an empty one.
wrap_min_width_one(lines, w) == wrap_loop(lines, Max(w, 1), <<>>)

wrap(lines, w) == wrap_loop(lines, w, <<>>)

WrapAccumulating ==
    /\ ~pending
    /\ wrap_offsets' = wrap_loop(document, width, wrap_offsets)
    /\ op' = "wrap"
    /\ arg' = 0
    /\ result' = NoResult
    /\ span' = <<>>
    /\ pre_lines' = <<>>
    /\ pre_offsets' = <<>>
    /\ wrapped' = TRUE
    /\ wrap_repeated' = (op = "wrap")
    /\ refreshed_rows' = <<>>
    /\ refreshed_entries' = <<>>
    /\ UNCHANGED <<document, width, pending, edits, wrap_vars>>

\* wrap(): the newly built table replaces the old one. The owner of the
\* document calls refresh_range right after an edit, so wrap() is not called
\* in between.
Wrap ==
    /\ ~pending
    /\ wrap_offsets' = wrap(document, width)
    /\ op' = "wrap"
    /\ arg' = 0
    /\ result' = NoResult
    /\ span' = <<>>
    /\ pre_lines' = <<>>
    /\ pre_offsets' = <<>>
    /\ wrapped' = TRUE
    /\ wrap_repeated' = (op = "wrap")
    /\ refreshed_rows' = <<>>
    /\ refreshed_entries' = <<>>
    /\ UNCHANGED <<document, width, pending, edits, wrap_vars>>

\* The positions <<row, column>> of a document, the end of each line included.
Locations(lines) ==
    UNION {{<<r, c>> : c \in 0..Len(lines[r + 1])} : r \in 0..(Len(lines) - 1)}

LocLeq(a, b) == a[1] < b[1] \/ (a[1] = b[1] /\ a[2] <= b[2])

\* The lines a text holds: it is cut at every line break.
RECURSIVE SplitLines(_)
SplitLines(text) ==
    IF \E i \in 1..Len(text) : text[i] = NL
    THEN LET i == CHOOSE j \in 1..Len(text) :
                      text[j] = NL /\ \A k \in 1..(j - 1) : text[k] # NL
         IN  <<SubSeq(text, 1, i - 1)>> \o
             SplitLines(SubSeq(text, i + 1, Len(text)))
    ELSE <<text>>

\* The document after the text between start and old_end became `text`.
ReplaceRange(lines, start, old_end, text) ==
    LET before == Slice(lines[start[1] + 1], 0, start[2])
        after == Slice(lines[old_end[1] + 1], old_end[2],
                       Len(lines[old_end[1] + 1]))
        inserted == SplitLines(text)
        n == Len(inserted)
        middle == [i \in 1..n |->
                      (IF i = 1 THEN before ELSE <<>>) \o inserted[i] \o
                      (IF i = n THEN after ELSE <<>>)]
    IN  Slice(lines, 0, start[1]) \o middle \o
        Slice(lines, old_end[1] + 1, Len(lines))

\* Where the inserted text ends in the edited document.
NewEnd(start, text) ==
    LET inserted == SplitLines(text)
        n == Len(inserted)
    IN  IF n = 1
        THEN <<start[1], start[2] + Len(text)>>
        ELSE <<start[1] + n - 1, Len(inserted[n])>>

\* The document's owner edits it: the text from start to old_end becomes
\* `text`. The matching refresh_range call is then due.
Edit(start, old_end, text) ==
    /\ ~pending
    /\ edits < MaxEdits
    /\ start # old_end \/ text # <<>>
    /\ LET new_lines == ReplaceRange(document, start, old_end, text)
       IN  /\ Len(new_lines) <= MaxLines
           /\ \A i \in 1..Len(new_lines) : Len(new_lines[i]) <= MaxLineLen
           /\ document' = new_lines
    /\ span' = <<start, old_end, NewEnd(start, text)>>
    /\ pre_lines' = document
    /\ pre_offsets' = <<>>
    /\ pending' = TRUE
    /\ op' = "edit"
    /\ arg' = 0
    /\ result' = NoResult
    /\ edits' = edits + 1
    /\ wrap_repeated' = FALSE
    /\ refreshed_rows' = <<>>
    /\ refreshed_entries' = <<>>
    /\ UNCHANGED <<width, wrap_offsets, wrapped, wrap_vars>>

refresh_range_no_guard_row(table, lines, w, start, old_end, new_end) ==
    LET start_row == start[1]
        end_row == new_end[1]
        new_lines == Slice(lines, start_row, end_row + 1)
        new_entries == [i \in 1..Len(new_lines) |->
                           divide_line(new_lines[i], w)]
        old_end_row == old_end[1]
    IN  SliceAssign(table, start_row, old_end_row, new_entries)

refresh_rows_no_guard_row(lines, start, new_end) ==
    LET start_row == start[1]
        end_row == new_end[1]
        new_lines == Slice(lines, start_row, end_row + 1)
    IN  [i \in 1..Len(new_lines) |-> start_row + i - 1]

\* The rows refresh_range reads, in order: those of the slice
\* lines[start_row : end_row + 2], numbered from start_row.
refresh_rows(lines, start, new_end) ==
    LET start_row == start[1]
        end_row == new_end[1]
        new_lines == Slice(lines, start_row, end_row + 2)
    IN  [i \in 1..Len(new_lines) |-> start_row + i - 1]

\* The entries refresh_range computes: one for each row it reads, from the
\* row's current text.
refresh_new_wrap_offsets(lines, w, start, new_end) ==
    LET rows == refresh_rows(lines, start, new_end)
    IN  [i \in 1..Len(rows) |-> divide_line(lines[rows[i] + 1], w)]

refresh_range_replaces_old_end_row(table, lines, w, start, old_end, new_end) ==
    SliceAssign(table, start[1], old_end[1] + 1,
                refresh_new_wrap_offsets(lines, w, start, new_end))

\* The table refresh_range leaves: the lines from the edit's first row to the
\* row after its new last row are split anew, and their entries replace the
\* entries from the edit's first row up to (excluding) its old last row.
refresh_range(table, lines, w, start, old_end, new_end) ==
    LET start_row == start[1]
        old_end_row == old_end[1]
    IN  SliceAssign(table, start_row, old_end_row,
                    refresh_new_wrap_offsets(lines, w, start, new_end))

\* refresh_range(start, old_end, new_end), called with the span of the edit
\* the document has just undergone.
RefreshRange ==
    /\ pending
    /\ wrap_offsets' = refresh_range(wrap_offsets, document, width,
                                     span[1], span[2], span[3])
    /\ pre_offsets' = wrap_offsets
    /\ pending' = FALSE
    /\ op' = "refresh_range"
    /\ arg' = 0
    /\ result' = NoResult
    /\ wrap_repeated' = FALSE
    /\ refreshed_rows' = refresh_rows(document, span[1], span[3])
    /\ refreshed_entries' =
          refresh_new_wrap_offsets(document, width, span[1], span[3])
    /\ UNCHANGED <<document, width, span, pre_lines, edits, wrapped,
                   wrap_vars>>

RECURSIVE ScanHeightsOffByOne(_, _, _, _)
ScanHeightsOffByOne(table, line_index, current_offset, offset) ==
    IF line_index >= Len(table)
    THEN ValueError
    ELSE LET wrapped_line_height == Len(table[line_index + 1]) + 1
             next_offset == current_offset + wrapped_line_height
         IN  IF next_offset >= offset
             THEN Return(line_index)
             ELSE ScanHeightsOffByOne(table, line_index + 1, next_offset,
                                      offset)

RECURSIVE ScanHeightsNoBaseLine(_, _, _, _)
ScanHeightsNoBaseLine(table, line_index, current_offset, offset) ==
    IF line_index >= Len(table)
    THEN ValueError
    ELSE LET wrapped_line_height == Len(table[line_index + 1])
             next_offset == current_offset + wrapped_line_height
         IN  IF next_offset > offset
             THEN Return(line_index)
             ELSE ScanHeightsNoBaseLine(table, line_index + 1, next_offset,
                                        offset)

\* The loop of offset_to_line_index from line_index on, current_offset being
\* the visual height of the lines before it.
RECURSIVE ScanHeights(_, _, _, _)
ScanHeights(table, line_index, current_offset, offset) ==
    IF line_index >= Len(table)
    THEN ValueError
    ELSE LET wrapped_line_height == Len(table[line_index + 1]) + 1
             next_offset == current_offset + wrapped_line_height
         IN  IF next_offset > offset
             THEN Return(line_index)
             ELSE ScanHeights(table, line_index + 1, next_offset, offset)

offset_to_line_index_unchecked(table, offset) ==
    ScanHeights(table, 0, 0, offset)

\* offset_to_line_index(offset): a negative offset is refused before the scan.
offset_to_line_index(table, offset) ==
    IF offset < 0 THEN ValueError ELSE ScanHeights(table, 0, 0, offset)

\* Python's table[line_index], which counts a negative index from the end.
get_offsets_unchecked(table, line_index) ==
    IF line_index >= Len(table) \/ line_index < 0 - Len(table)
    THEN IndexError
    ELSE IF line_index < 0
         THEN Return(table[Len(table) + line_index + 1])
         ELSE Return(table[line_index + 1])

\* get_offsets(line_index): the bounds check precedes the read.
get_offsets(table, line_index) ==
    LET out_of_bounds == line_index < 0 \/ line_index >= Len(table)
    IN  IF out_of_bounds THEN ValueError ELSE Return(table[line_index + 1])

lines_drops_last_line(table, doc_lines) ==
    IF \E line_index \in 0..(Len(doc_lines) - 2) : line_index >= Len(table)
    THEN IndexError
    ELSE Return([i \in 1..(Len(doc_lines) - 1) |->
                    divide(doc_lines[i], table[i])])

\* The lines property: every line of the document cut at its table entry;
\* indexing the table past its end raises IndexError.
lines(table, doc_lines) ==
    IF \E line_index \in 0..(Len(doc_lines) - 1) : line_index >= Len(table)
    THEN IndexError
    ELSE Return([i \in 1..Len(doc_lines) |-> divide(doc_lines[i], table[i])])

\* The visual height of the first n lines of the table: line i takes
\* len(offsets[i]) + 1 visual lines.
RECURSIVE PrefixHeight(_, _)
PrefixHeight(table, n) ==
    IF n = 0 THEN 0
    ELSE PrefixHeight(table, n - 1) + Len(table[n]) + 1

\* The visual height of the whole table.
TotalHeight(table) == PrefixHeight(table, Len(table))

QueryOffsetToLineIndex(offset) ==
    /\ op' = "offset_to_line_index"
    /\ arg' = offset
    /\ result' = offset_to_line_index(wrap_offsets, offset)
    /\ wrap_repeated' = FALSE
    /\ UNCHANGED <<document, width, wrap_offsets, pending, span, pre_lines,
                   pre_offsets, edits, wrapped, refreshed_rows,
                   refreshed_entries, wrap_vars>>

QueryGetOffsets(line_index) ==
    /\ op' = "get_offsets"
    /\ arg' = line_index
    /\ result' = get_offsets(wrap_offsets, line_index)
    /\ wrap_repeated' = FALSE
    /\ UNCHANGED <<document, width, wrap_offsets, pending, span, pre_lines,
                   pre_offsets, edits, wrapped, refreshed_rows,
                   refreshed_entries, wrap_vars>>

QueryLinesPadding ==
    /\ op' = "lines"
    /\ arg' = 0
    /\ result' = lines(wrap_offsets, document)
    /\ wrap_offsets' =
          [i \in 1..Max(Len(wrap_offsets), Len(document)) |->
              IF i <= Len(wrap_offsets) THEN wrap_offsets[i] ELSE <<>>]
    /\ wrap_repeated' = FALSE
    /\ UNCHANGED <<document, width, pending, span, pre_lines,
                   pre_offsets, edits, wrapped, refreshed_rows,
                   refreshed_entries, wrap_vars>>

QueryLines ==
    /\ op' = "lines"
    /\ arg' = 0
    /\ result' = lines(wrap_offsets, document)
    /\ wrap_repeated' = FALSE
    /\ UNCHANGED <<document, width, wrap_offsets, pending, span, pre_lines,
                   pre_offsets, edits, wrapped, refreshed_rows,
                   refreshed_entries, wrap_vars>>

Next ==
    \/ Wrap
    \/ \E start \in Locations(document) :
          \E old_end \in {l \in Locations(document) : LocLeq(start, l)} :
             \E text \in Texts : Edit(start, old_end, text)
    \/ RefreshRange
    \/ \E offset \in (-1)..TotalHeight(wrap_offsets) :
          QueryOffsetToLineIndex(offset)
    \/ \E line_index \in (-1)..Len(wrap_offsets) :
          QueryGetOffsets(line_index)
    \/ QueryLines

Spec == Init /\ [][Next]_vars

(***************************************************************************)
(* wrap() taken statement by statement, to see the table it leaves visible *)
(* while it runs. The other operations run only while no wrap() does.      *)
(***************************************************************************)

\* new_wrap_offsets = []: the call starts with an empty list of its own.
WrapCall ==
    /\ pc = "idle"
    /\ ~pending
    /\ pc' = "loop"
    /\ new_wrap_offsets' = <<>>
    /\ remaining' = document
    /\ table_at_call' = wrap_offsets
    /\ UNCHANGED <<document, width, wrap_offsets, pending, span, pre_lines,
                   pre_offsets, op, arg, result, edits, wrapped,
                   wrap_repeated, refreshed_rows, refreshed_entries>>

WrapAppendWritesThrough ==
    /\ pc = "loop"
    /\ remaining # <<>>
    /\ new_wrap_offsets' =
          Append(new_wrap_offsets, divide_line(Head(remaining), width))
    /\ wrap_offsets' = new_wrap_offsets'
    /\ remaining' = Tail(remaining)
    /\ UNCHANGED <<document, width, pending, span, pre_lines,
                   pre_offsets, op, arg, result, edits, wrapped,
                   wrap_repeated, refreshed_rows, refreshed_entries, pc,
                   table_at_call>>

\* One turn of the loop: the next line's entry is appended to the call's
\* own list.
WrapAppend ==
    /\ pc = "loop"
    /\ remaining # <<>>
    /\ new_wrap_offsets' =
          Append(new_wrap_offsets, divide_line(Head(remaining), width))
    /\ remaining' = Tail(remaining)
    /\ UNCHANGED <<document, width, wrap_offsets, pending, span, pre_lines,
                   pre_offsets, op, arg, result, edits, wrapped,
                   wrap_repeated, refreshed_rows, refreshed_entries, pc,
                   table_at_call>>

\* self._wrap_offsets = new_wrap_offsets: the finished list becomes the table.
WrapAssign ==
    /\ pc = "loop"
    /\ remaining = <<>>
    /\ wrap_offsets' = new_wrap_offsets
    /\ pc' = "idle"
    /\ new_wrap_offsets' = <<>>
    /\ table_at_call' = <<>>
    /\ op' = "wrap"
    /\ arg' = 0
    /\ result' = NoResult
    /\ span' = <<>>
    /\ pre_lines' = <<>>
    /\ pre_offsets' = <<>>
    /\ wrapped' = TRUE
    /\ wrap_repeated' = (op = "wrap")
    /\ refreshed_rows' = <<>>
    /\ refreshed_entries' = <<>>
    /\ UNCHANGED <<document, width, pending, edits, remaining>>

NextSteps ==
    \/ WrapCall
    \/ WrapAppend
    \/ WrapAssign
    \/ /\ pc = "idle"
       /\ \E start \in Locations(document) :
             \E old_end \in {l \in Locations(document) : LocLeq(start, l)} :
                \E text \in Texts : Edit(start, old_end, text)
    \/ /\ pc = "idle"
       /\ RefreshRange

SpecSteps == Init /\ [][NextSteps]_vars

(***************************************************************************)
(* Properties.                                                             *)
(***************************************************************************)

\* A state the caller may query: wrap() has been called, and every edit made
\* since has been followed by its refresh_range.
Refreshed == wrapped /\ ~pending

\* The rows of the last edit's span.
StartRow == span[1][1]
OldEndRow == span[2][1]
NewEndRow == span[3][1]

\* The state right after refresh_range for an edit made to a table that
\* was the full wrap of the document as it stood before the edit.
RefreshedFromWrapped ==
    /\ op = "refresh_range"
    /\ pre_offsets = wrap(pre_lines, width)

\* C1: starting from a wrapped table, after edits each followed by its
\* refresh_range, the table has as many entries as the document has lines.
C1_TableLengthIsLineCount ==
    Refreshed => Len(wrap_offsets) = Len(document)

\* C2: starting from a wrapped table, after edits each followed by its
\* refresh_range, the table is the table a full wrap() of the current
\* document at the same width builds.
C2_TableEqualsFullWrap ==
    Refreshed => wrap_offsets = wrap(document, width)

\* C3: after refresh_range for an edit confined to one row r of a wrapped
\* document, every table entry at an index other than r is the entry that
\* index held before the call (compared at the indices the table had both
\* before and after).
C3_SingleRowEditKeepsOtherEntries ==
    (RefreshedFromWrapped /\ StartRow = OldEndRow /\ StartRow = NewEndRow) =>
        \A i \in 1..Min(Len(wrap_offsets), Len(pre_offsets)) :
            i # StartRow + 1 => wrap_offsets[i] = pre_offsets[i]

\* C4: right after wrap() the table has exactly one entry per line of the
\* document, and entry i is the splitter's result for line i at the width.
C4_WrapOneEntryPerLine ==
    op = "wrap" =>
        /\ Len(wrap_offsets) = Len(document)
        /\ \A i \in 1..Len(document) :
              wrap_offsets[i] = divide_line(document[i], width)

C4_Witness ==
    /\ op = "wrap"
    /\ Len(document) = MaxLines
    /\ \E i \in 1..Len(wrap_offsets) : wrap_offsets[i] # <<>>
    /\ \E i \in 1..Len(wrap_offsets) : wrap_offsets[i] = <<>>

\* The offsets of an entry lie inside the line and strictly increase.
OffsetsFitLine(offsets, line) ==
    /\ \A k \in 1..Len(offsets) : 0 <= offsets[k] /\ offsets[k] < Len(line)
    /\ \A k \in 1..(Len(offsets) - 1) : offsets[k] < offsets[k + 1]

\* C5: in every state reached by wrap() or by an edit followed by its
\* refresh_range, each table entry i holds strictly increasing offsets
\* inside the document's current line i (stated for the entries whose
\* line exists).
C5_OffsetsWithinTheirLine ==
    Refreshed =>
        \A i \in 1..Min(Len(wrap_offsets), Len(document)) :
            OffsetsFitLine(wrap_offsets[i], document[i])

\* C6: for 0 <= o < total height, offset_to_line_index(o) returns the one
\* line index i with prefix(i-1) <= o < prefix(i), which is the smallest i
\* whose prefix sum of heights exceeds o.
C6_OffsetToLineIndexIsPrefixSumLookup ==
    (op = "offset_to_line_index" /\ 0 <= arg
        /\ arg < TotalHeight(wrap_offsets)) =>
        /\ result.kind = "return"
        /\ result.value \in 0..(Len(wrap_offsets) - 1)
        /\ \A j \in 0..(Len(wrap_offsets) - 1) :
              (PrefixHeight(wrap_offsets, j) <= arg
                  /\ arg < PrefixHeight(wrap_offsets, j + 1))
              <=> j = result.value
        /\ \A j \in 0..(result.value - 1) :
              ~(PrefixHeight(wrap_offsets, j + 1) > arg)

C6_Witness ==
    /\ op = "offset_to_line_index"
    /\ result = Return(1)
    /\ wrap_offsets[1] # <<>>
    /\ arg = PrefixHeight(wrap_offsets, 1)
    /\ Len(wrap_offsets) > 2

\* C7: offset_to_line_index(o) raises the range error exactly when o < 0 or
\* o is at or beyond the total visual height, the empty table included; it
\* returns no index then.
C7_OffsetOutOfRangeRaises ==
    op = "offset_to_line_index" =>
        /\ result.kind \in {"return", "ValueError"}
        /\ result.kind = "ValueError"
              <=> (arg < 0 \/ arg >= TotalHeight(wrap_offsets))

C7_Witness ==
    /\ op = "offset_to_line_index"
    /\ wrap_offsets # <<>>
    /\ arg = TotalHeight(wrap_offsets)
    /\ result = ValueError

\* C8: get_offsets(i) returns the stored entry i for 0 <= i < table length
\* and raises the range error for every other i; a negative index is never
\* counted from the end.
C8_GetOffsetsBoundsChecked ==
    op = "get_offsets" =>
        IF 0 <= arg /\ arg < Len(wrap_offsets)
        THEN result = Return(wrap_offsets[arg + 1])
        ELSE result = ValueError

C8_Witness ==
    /\ op = "get_offsets"
    /\ arg = -1
    /\ wrap_offsets # <<>>
    /\ result = ValueError

\* C9: wrap() called again with document and width unchanged leaves the
\* table the previous wrap() built, whatever the table held before.
C9_WrapIdempotent ==
    [][(op = "wrap" /\ op' = "wrap") => wrap_offsets' = wrap_offsets]_vars

C9_Witness ==
    /\ wrap_repeated
    /\ edits > 0
    /\ \E i \in 1..Len(wrap_offsets) : wrap_offsets[i] # <<>>

\* C10: after refresh_range for a line break inserted inside row r of a
\* wrapped document, entries r and r+1 are the splitter's results for the
\* current lines r and r+1, and entry r+2 holds the offsets the line that
\* followed the edit had before it.
C10_LineSplitRefresh ==
    (RefreshedFromWrapped /\ span[1] = span[2]
        /\ span[3] = <<StartRow + 1, 0>>) =>
        /\ Len(wrap_offsets) >= StartRow + 2
        /\ wrap_offsets[StartRow + 1] =
              divide_line(document[StartRow + 1], width)
        /\ wrap_offsets[StartRow + 2] =
              divide_line(document[StartRow + 2], width)
        /\ StartRow + 1 < Len(pre_lines) =>
              wrap_offsets[StartRow + 3] = pre_offsets[StartRow + 2]

C10_Witness ==
    /\ RefreshedFromWrapped
    /\ span[1] = span[2]
    /\ span[3] = <<StartRow + 1, 0>>
    /\ StartRow + 1 < Len(pre_lines)
    /\ pre_offsets[StartRow + 1] # pre_offsets[StartRow + 2]
    /\ wrap_offsets[StartRow + 3] # <<>>

\* C11: a read issued between a document edit and its refresh_range never
\* crashes: it returns a value or raises the documented range error.
C11_WindowReadsNeverCrash ==
    (wrapped /\ pending /\ op \in QueryOps) =>
        result.kind \in {"return", "ValueError"}

\* The concatenation of a sequence of pieces of text.
RECURSIVE Concat(_)
Concat(pieces) ==
    IF pieces = <<>> THEN <<>> ELSE Head(pieces) \o Concat(Tail(pieces))

\* C12: in a state reached by wrap() or by an edit followed by its
\* refresh_range, the lines view has one element per document line, and
\* element i is len(offsets[i]) + 1 pieces whose concatenation is line i.
C12_LinesPartitionEveryLine ==
    (Refreshed /\ op = "lines") =>
        /\ result.kind = "return"
        /\ Len(result.value) = Len(document)
        /\ \A i \in 1..Len(document) :
              /\ Len(result.value[i]) = Len(wrap_offsets[i]) + 1
              /\ Concat(result.value[i]) = document[i]

C12_Witness ==
    /\ Refreshed
    /\ op = "lines"
    /\ span # <<>>
    /\ \E i \in 1..Len(document) :
          /\ Len(result.value[i]) = 2
          /\ result.value[i][1] # <<>>
          /\ result.value[i][2] # <<>>
    /\ \E i \in 1..Len(document) :
          wrap_offsets[i] # divide_line(document[i], width)

\* The edit's coordinates are valid against the table refresh_range was
\* given: the table held an entry for every row up to the old end row.
SpanFitsTable ==
    /\ op = "refresh_range"
    /\ StartRow <= OldEndRow
    /\ OldEndRow < Len(pre_offsets)

\* C13: refresh_range reads, and computes exactly one entry from the current
\* text of, each row from start.row to min(new_end.row + 1, line_count - 1)
\* and no other; the guard row is never one past the last line.
C13_RefreshRecomputesClampedRowRange ==
    op = "refresh_range" =>
        LET upper == Min(NewEndRow + 1, Len(document) - 1)
        IN  /\ Len(refreshed_rows) = upper - StartRow + 1
            /\ \A i \in 1..Len(refreshed_rows) :
                  refreshed_rows[i] = StartRow + i - 1
            /\ Len(refreshed_entries) = Len(refreshed_rows)
            /\ \A i \in 1..Len(refreshed_rows) :
                  /\ refreshed_rows[i] < Len(document)
                  /\ refreshed_entries[i] =
                        divide_line(document[refreshed_rows[i] + 1], width)

C13_Witness ==
    /\ op = "refresh_range"
    /\ wrapped
    /\ NewEndRow = Len(document) - 1
    /\ NewEndRow > StartRow
    /\ Len(refreshed_rows) = 2
    /\ refreshed_entries[2] # <<>>

\* C14: refresh_range removes exactly the entries at indices
\* [start.row, old_end.row) and puts the new entries at start.row; every
\* other entry is kept unchanged and in order, the later ones moved by
\* len(new_entries) - (old_end.row - start.row).
C14_RefreshSplicesTable ==
    SpanFitsTable =>
        LET k == Len(refreshed_entries)
            shift == k - (OldEndRow - StartRow)
        IN  /\ Len(wrap_offsets) = Len(pre_offsets) + shift
            /\ \A i \in 1..StartRow : wrap_offsets[i] = pre_offsets[i]
            /\ \A j \in 1..k :
                  wrap_offsets[StartRow + j] = refreshed_entries[j]
            /\ \A i \in (OldEndRow + 1)..Len(pre_offsets) :
                  wrap_offsets[i + shift] = pre_offsets[i]

C14_Witness ==
    /\ SpanFitsTable
    /\ OldEndRow > StartRow
    /\ OldEndRow + 2 <= Len(pre_offsets)
    /\ pre_offsets[OldEndRow + 2] # <<>>
    /\ Len(wrap_offsets) # Len(pre_offsets)

\* C15: for a line merge (new_end.row < old_end.row) and for a line split
\* (new_end.row > old_end.row) of a wrapped document, the table has
\* new_end.row - old_end.row more entries after refresh_range than before.
C15_RowCountChangeFollowsEdit ==
    (RefreshedFromWrapped /\ NewEndRow # OldEndRow) =>
        Len(wrap_offsets) = Len(pre_offsets) + (NewEndRow - OldEndRow)

\* C16: after refresh_range for an edit of a wrapped document that spans the
\* whole document, the table is the table a full wrap() of the current
\* document builds.
C16_WholeDocumentEditEqualsWrap ==
    (RefreshedFromWrapped /\ StartRow = 0
        /\ OldEndRow = Len(pre_lines) - 1
        /\ NewEndRow = Len(document) - 1) =>
        wrap_offsets = wrap(document, width)

\* The table is the one the last wrap() built: no edit was made since.
AfterWrap == wrapped /\ span = <<>>

\* C17: at width 0 every entry wrap() builds and every entry refresh_range
\* computes is empty, so after wrap() every line has visual height 1 and
\* offset_to_line_index(o) is o for every o in [0, line_count).
C17_WidthZeroNeverWraps ==
    width = 0 =>
        /\ op = "wrap" =>
              \A i \in 1..Len(wrap_offsets) : wrap_offsets[i] = <<>>
        /\ op = "refresh_range" =>
              \A i \in 1..Len(refreshed_entries) : refreshed_entries[i] = <<>>
        /\ AfterWrap =>
              /\ TotalHeight(wrap_offsets) = Len(document)
              /\ \A i \in 1..Len(wrap_offsets) : Len(wrap_offsets[i]) + 1 = 1
        /\ (AfterWrap /\ op = "offset_to_line_index" /\ 0 <= arg
               /\ arg < Len(document)) =>
              result = Return(arg)

C17_Witness ==
    /\ width = 0
    /\ AfterWrap
    /\ edits > 0
    /\ op = "offset_to_line_index"
    /\ arg = 2
    /\ result = Return(2)
    /\ Len(document[3]) = MaxLineLen

\* C19: the queries leave the table, the width and the document unchanged,
\* whether they return or raise; only wrap() and refresh_range() change the
\* table.
C19_QueriesChangeNothing ==
    [][/\ op' \in QueryOps =>
             UNCHANGED <<wrap_offsets, width, document>>
       /\ wrap_offsets' # wrap_offsets =>
             op' \in {"wrap", "refresh_range"}]_vars

C19_Witness ==
    /\ wrapped
    /\ op = "offset_to_line_index"
    /\ result = ValueError
    /\ arg = -1
    /\ Len(wrap_offsets) > Len(document)

\* The line index offset_to_line_index gives for an offset of the table.
LineAt(o) == offset_to_line_index(wrap_offsets, o).value

\* C20: over the offsets [0, total height) offset_to_line_index never
\* decreases, and it returns line i for exactly len(offsets[i]) + 1
\* consecutive offsets: offset 0 gives line 0 and the last offset gives the
\* last table index.
C20_LookupMonotoneOntoLines ==
    LET total == TotalHeight(wrap_offsets)
        offsets == 0..(total - 1)
    IN  /\ \A o \in offsets :
              offset_to_line_index(wrap_offsets, o).kind = "return"
        /\ \A o \in offsets : o + 1 < total => LineAt(o) <= LineAt(o + 1)
        /\ \A i \in 0..(Len(wrap_offsets) - 1) :
              Cardinality({o \in offsets : LineAt(o) = i}) =
                  Len(wrap_offsets[i + 1]) + 1
        /\ total > 0 =>
              /\ LineAt(0) = 0
              /\ LineAt(total - 1) = Len(wrap_offsets) - 1

C20_Witness ==
    /\ op = "offset_to_line_index"
    /\ arg = TotalHeight(wrap_offsets) - 1
    /\ result = Return(Len(wrap_offsets) - 1)
    /\ Len(wrap_offsets) = 3
    /\ wrap_offsets[1] # <<>>
    /\ wrap_offsets[2] = <<>>
    /\ wrap_offsets[3] # <<>>

\* C18: while wrap() runs, the table is the complete table from before the
\* call; when it has finished, the table is the complete new one, with one
\* entry per document line; no partly built table is ever visible.
C18_WrapReplacesTableAtomically ==
    /\ pc = "loop" => wrap_offsets = table_at_call
    /\ (pc = "idle" /\ op = "wrap") =>
          /\ wrap_offsets = wrap(document, width)
          /\ Len(wrap_offsets) = Len(document)

C18_Witness ==
    /\ pc = "loop"
    /\ new_wrap_offsets # <<>>
    /\ remaining # <<>>
    /\ wrap_offsets # <<>>
    /\ Len(wrap_offsets) # Len(document)
    /\ new_wrap_offsets # SubSeq(wrap_offsets, 1, Len(new_wrap_offsets))
====
